---- MODULE Spec2Model ----
(***************************************************************************)
(* The PayNova escrow ledger (contract/src/PayNova.sol) as a state machine. *)
(*                                                                         *)
(* One EVM message call into the ledger is one step when the function      *)
(* makes no external call (generateTransaction, cancelTransaction,         *)
(* getTransaction, changeOwner, receive) or none that calls back           *)
(* (withdraw, multicall of a user or of the token).  executePay hands      *)
(* control to the recipient, the payer or the token contract while it      *)
(* runs, so it is a frame on `stack`: the frame holds the function's       *)
(* locals, the place of the external call it is waiting in and the world   *)
(* state at its entry, which a failed require restores (the EVM's          *)
(* revert).  While a frame waits, the called address may call back into    *)
(* the ledger.  multicall of the ledger itself is a frame too: what runs   *)
(* in it is called by the ledger.                                          *)
(***************************************************************************)
EXTENDS Integers, Sequences, FiniteSets, TLC

\* ------------------------------------------------------------- bounds
MaxAmount == 2      \* amounts, attached values and sentAmounts are 0..MaxAmount
MaxTime   == 1      \* block.timestamp runs 0..MaxTime
MaxDepth  == 2      \* ledger frames on the call stack (2: one re-entrant call)
MaxCalls  == 3      \* message calls into the ledger in one behaviour

\* ---------------------------------------------------------- addresses
Zero   == "0x0"             \* address(0)
LEDGER == "PayNova"         \* address(this)
TokenX == "tokenX"          \* an ERC-20 contract
Users  == {"alice", "bob"}  \* identities that send transactions (EOAs or contracts)
Deployer == "bob"           \* msg.sender of the constructor

Addresses == Users \cup {Zero, LEDGER, TokenX}
Amounts   == 0..MaxAmount
Strings   == {"", "r1"}                 \* reference strings; "" is the empty one

\* keccak256(abi.encodePacked(ref)): one-way and collision-free on Strings.
keccak256(ref) == <<"keccak256", ref>>
\* A bytes32 that is the hash of no reference string of the model.
StrayHash == <<"bytes32", "0xdead">>
Hashes == {keccak256(s) : s \in Strings} \cup {StrayHash}

\* The all-default Transaction struct a mapping slot reads as before any write.
EmptyTx ==
    [from |-> Zero, to |-> Zero, amount |-> 0, token |-> Zero,
     timestamp |-> 0, status |-> "Pending", refunded |-> 0]

VARIABLES
    transactions,   \* mapping(bytes32 => Transaction)
    owner,          \* address public owner
    balances,       \* native balance of every address
    tokenBalances,  \* tokenX.balanceOf
    allowance,      \* tokenX.allowance(user, address(this))
    events,         \* the event log, in emission order
    now,            \* block.timestamp
    stack,          \* executePay frames in progress, outermost first
    last,           \* the message call into the ledger that returned last
    ncalls          \* message calls into the ledger so far

vars == <<transactions, owner, balances, tokenBalances, allowance, events,
          now, stack, last, ncalls>>

\* Everything a revert rolls back.
World ==
    [transactions |-> transactions, owner |-> owner, balances |-> balances,
     tokenBalances |-> tokenBalances, allowance |-> allowance, events |-> events]

\* The state as the chain has it: the world outside any transaction in progress.
Committed == IF stack = <<>> THEN World ELSE stack[1].snap

\* The record of a returned call: what was called, by whom, on which record
\* (pre: the record as the call found it; args: the recipient, amount and token
\* given to generateTransaction), how it ended (result: "ok" or the revert reason;
\* ret: the returned value; restored: the world at return is the world at entry)
\* and the value it moved (paid: to the recipient; refund: back to the caller;
\* pulled: token pulled from the caller; moveFailed: an external value movement
\* of the call failed).
CallRecord(id, fn, sender, h, value, sentAmount, depth) ==
    [id |-> id, fn |-> fn, sender |-> sender, refHash |-> h, value |-> value,
     sentAmount |-> sentAmount, depth |-> depth, result |-> "none", ret |-> 0,
     args |-> <<Zero, 0, Zero>>, restored |-> TRUE,
     pre |-> transactions[h], paid |-> 0, refund |-> 0, pulled |-> 0,
     moveFailed |-> FALSE]

NoCall ==
    [id |-> 0, fn |-> "none", sender |-> Zero, refHash |-> StrayHash, value |-> 0,
     sentAmount |-> 0, depth |-> 0, result |-> "none", ret |-> 0,
     args |-> <<Zero, 0, Zero>>, restored |-> TRUE,
     pre |-> EmptyTx, paid |-> 0, refund |-> 0, pulled |-> 0,
     moveFailed |-> FALSE]

Init ==
    /\ transactions = [h \in Hashes |-> EmptyTx]
    /\ owner = Deployer
    /\ balances = [a \in Addresses |-> IF a \in Users THEN MaxAmount ELSE 0]
    /\ tokenBalances = [a \in Addresses |-> IF a \in Users THEN MaxAmount ELSE 0]
    /\ allowance = [a \in Addresses |-> 0]
    /\ events = <<>>
    /\ now = 0
    /\ stack = <<>>
    /\ last = NoCall
    /\ ncalls = 0

\* ------------------------------------------------------------ helpers
Top == stack[Len(stack)]
Pop == SubSeq(stack, 1, Len(stack) - 1)

SetWorld(w) ==
    /\ transactions' = w.transactions
    /\ owner' = w.owner
    /\ balances' = w.balances
    /\ tokenBalances' = w.tokenBalances
    /\ allowance' = w.allowance
    /\ events' = w.events

\* amt of a balance map moved from one address to another.
Move(bal, src, dst, amt) == [bal EXCEPT ![src] = @ - amt, ![dst] = @ + amt]

\* The address the top frame's external call runs code of.
Callee(f) ==
    CASE f.pc \in {"recipient", "multicall"} -> f.recipient
      [] f.pc = "refund"                     -> f.call.sender
      [] OTHER                               -> f.token

\* The innermost frame is a multicall element whose target is the ledger itself,
\* and the call it made into the ledger has failed: multicall's require(success)
\* lets nothing more happen in it.
SelfCallFailed ==
    /\ stack # <<>>
    /\ Top.pc = "multicall" /\ Top.recipient = LEDGER
    /\ last.id > Top.call.id /\ last.depth = Len(stack)
    /\ last.result # "ok"

\* msg.sender may call into the ledger now: a user at top level, or the address
\* whose code the ledger's pending external call is running.  address(0) has no
\* code and no key; the ledger's own code calls the ledger only as the target of
\* a multicall element (its receive function is empty).
CanCall(sender) ==
    /\ ncalls < MaxCalls
    /\ sender # Zero
    /\ IF stack = <<>> THEN sender \in Users ELSE sender = Callee(Top)
    /\ sender = LEDGER => (Top.pc = "multicall" /\ ~SelfCallFailed)

Event(name, from, to, h, amount, token, refunded) ==
    [name |-> name, from |-> from, to |-> to, refHash |-> h, amount |-> amount,
     token |-> token, timestamp |-> now, refunded |-> refunded]

\* The spec's error kinds, as the contract's revert reasons.
InvalidState   == {"Invalid tx status", "Cannot cancel non-pending tx"}
Unauthorized   == {"Only creator can cancel"}
InsufficientFunds ==
    {"Insufficient ETH sent", "Sent amount must be >= payment amount for ERC-20"}
InvalidRecipient     == {"Invalid recipient"}
InvalidAmount        == {"Amount must be greater than 0"}
EmptyReference       == {"ref is required"}
ReferenceAlreadyUsed == {"ref already used"}
TransferFailed ==
    {"Transfer to recipient failed", "Refund failed", "Token transfer failed",
     "Token payment failed", "Token refund failed", "token call reverted"}

\* How a returned call is recorded; w0 is the world the call was entered in.
Returned(rec, result, ret, w0) ==
    last' = [rec EXCEPT !.result = result, !.ret = ret, !.restored = (World' = w0)]

\* ------------------------------------------------- generateTransaction
\* (mutant: the slot counts as used only while its record is Pending)
RefUsedWhilePending(h) ==
    transactions[h].from # Zero /\ transactions[h].status = "Pending"

\* require(transactions[refHash].from == address(0), "ref already used") fails.
RefUsed(h) == transactions[h].from # Zero

\* (mutant: the amount is checked before the recipient)
GenerateErrorAmountFirst(recipient, amount, ref) ==
    IF ~(amount > 0) THEN "Amount must be greater than 0"
    ELSE IF recipient = Zero THEN "Invalid recipient"
    ELSE IF ref = "" THEN "ref is required"
    ELSE IF RefUsed(keccak256(ref)) THEN "ref already used"
    ELSE "ok"

\* The requires of generateTransaction in their order: the first that fails
\* gives the revert reason, "ok" when none does.
GenerateError(recipient, amount, ref) ==
    IF recipient = Zero THEN "Invalid recipient"
    ELSE IF ~(amount > 0) THEN "Amount must be greater than 0"
    ELSE IF ref = "" THEN "ref is required"
    ELSE IF RefUsed(keccak256(ref)) THEN "ref already used"
    ELSE "ok"

\* (mutant: the recipient is stored as the creator)
PendingTxOfRecipient(sender, recipient, amount, token) ==
    [from |-> recipient, to |-> recipient, amount |-> amount, token |-> token,
     timestamp |-> now, status |-> "Pending", refunded |-> 0]

\* The struct generateTransaction stores.
PendingTx(sender, recipient, amount, token) ==
    [from |-> sender, to |-> recipient, amount |-> amount, token |-> token,
     timestamp |-> now, status |-> "Pending", refunded |-> 0]

GenerateTransaction(sender, recipient, amount, token, ref) ==
    LET h   == keccak256(ref)
        err == GenerateError(recipient, amount, ref)
        rec == [CallRecord(ncalls + 1, "generateTransaction", sender, h, 0, 0,
                           Len(stack)) EXCEPT !.args = <<recipient, amount, token>>]
    IN  /\ CanCall(sender)
        /\ ncalls' = ncalls + 1
        /\ IF err = "ok"
           THEN /\ transactions' =
                      [transactions EXCEPT ![h] = PendingTx(sender, recipient, amount, token)]
                /\ events' = Append(events,
                      Event("TransactionGenerated", sender, recipient, h, amount, token, 0))
           ELSE UNCHANGED <<transactions, events>>
        /\ UNCHANGED <<owner, balances, tokenBalances, allowance, now, stack>>
        /\ Returned(rec, err, 0, World)

\* --------------------------------------------------- cancelTransaction
\* (mutant: cancel without the status require)
CancelErrorNoStatus(sender, h) ==
    IF transactions[h].from # sender THEN "Only creator can cancel" ELSE "ok"

\* (mutant: cancel without the creator require)
CancelErrorNoCreator(sender, h) ==
    IF transactions[h].status # "Pending" THEN "Cannot cancel non-pending tx" ELSE "ok"

CancelError(sender, h) ==
    IF transactions[h].from # sender THEN "Only creator can cancel"
    ELSE IF transactions[h].status # "Pending" THEN "Cannot cancel non-pending tx"
    ELSE "ok"

\* (mutant: the cancel time is not written)
CancelledTxOldTime(txn) == [txn EXCEPT !.status = "Cancelled"]

\* txn.status = TxStatus.Cancelled; txn.timestamp = block.timestamp.
CancelledTx(txn) == [txn EXCEPT !.status = "Cancelled", !.timestamp = now]

CancelTransaction(sender, h) ==
    LET err == CancelError(sender, h)
        rec == CallRecord(ncalls + 1, "cancelTransaction", sender, h, 0, 0, Len(stack))
    IN  /\ CanCall(sender)
        /\ ncalls' = ncalls + 1
        /\ IF err = "ok"
           THEN /\ transactions' = [transactions EXCEPT ![h] = CancelledTx(@)]
                /\ events' = Append(events,
                      Event("TransactionCancelled", sender, Zero, h, 0, Zero, 0))
           ELSE UNCHANGED <<transactions, events>>
        /\ UNCHANGED <<owner, balances, tokenBalances, allowance, now, stack>>
        /\ Returned(rec, err, 0, World)

\* ------------------------------------------------------------ executePay
\* (mutant: executePay without the status require)
ExecutePayErrorNoStatus(txn, msgValue, sentAmount) ==
    IF txn.token = Zero
    THEN IF ~(msgValue >= txn.amount) THEN "Insufficient ETH sent" ELSE "ok"
    ELSE IF ~(sentAmount >= txn.amount)
         THEN "Sent amount must be >= payment amount for ERC-20"
         ELSE "ok"

\* (mutant: executePay without the requires on the amount supplied)
ExecutePayErrorNoFunds(txn, msgValue, sentAmount) ==
    IF txn.status # "Pending" THEN "Invalid tx status" ELSE "ok"

\* (mutant: any positive amount supplied is accepted, as a part payment)
ExecutePayErrorPartial(txn, msgValue, sentAmount) ==
    IF txn.status # "Pending" THEN "Invalid tx status"
    ELSE IF txn.token = Zero
         THEN IF txn.amount > 0 /\ msgValue = 0 THEN "Insufficient ETH sent" ELSE "ok"
         ELSE IF txn.amount > 0 /\ sentAmount = 0
              THEN "Sent amount must be >= payment amount for ERC-20"
              ELSE "ok"

\* (mutant: sentAmount has to cover the amount of a native record too)
ExecutePayErrorSentAmount(txn, msgValue, sentAmount) ==
    IF txn.status # "Pending" THEN "Invalid tx status"
    ELSE IF ~(sentAmount >= txn.amount)
         THEN "Sent amount must be >= payment amount for ERC-20"
    ELSE IF txn.token = Zero /\ ~(msgValue >= txn.amount) THEN "Insufficient ETH sent"
    ELSE "ok"

\* The requires executePay evaluates before its first external call.
ExecutePayError(txn, msgValue, sentAmount) ==
    IF txn.status # "Pending" THEN "Invalid tx status"
    ELSE IF txn.token = Zero
         THEN IF ~(msgValue >= txn.amount) THEN "Insufficient ETH sent" ELSE "ok"
         ELSE IF ~(sentAmount >= txn.amount)
              THEN "Sent amount must be >= payment amount for ERC-20"
              ELSE "ok"

\* (mutant: no excess is computed, so nothing is refunded)
ExcessNone(txn, msgValue, sentAmount) == 0

\* excess = actualSent - amount (native), sentAmount - amount (ERC-20).
Excess(txn, msgValue, sentAmount) ==
    IF txn.token = Zero THEN msgValue - txn.amount ELSE sentAmount - txn.amount

\* The value of payable(recipient).call{value: ...}("").
SentToRecipient(msgValue, amount) == msgValue

\* (mutant: the bool an external call gave is not looked at)
RequireUnchecked(res) == TRUE

\* require(<bool an external call gave>, ...): what lets the function go on.
RequireOk(res) == res = "true"

\* executePay up to its first external call.  A failed require returns at once
\* with nothing changed; otherwise the frame is pushed and the callee runs.
\* The ledger holds msg.value when it sends to the recipient, and what it sends
\* is at most msg.value, so the send cannot fail for lack of balance.
ExecutePay(sender, ref, msgValue, sentAmount) ==
    LET h    == keccak256(ref)
        txn  == transactions[h]
        err  == ExecutePayError(txn, msgValue, sentAmount)
        rec  == CallRecord(ncalls + 1, "executePay", sender, h, msgValue, sentAmount,
                           Len(stack))
        sent == SentToRecipient(msgValue, txn.amount)
        f    == [call |-> rec, amount |-> txn.amount, token |-> txn.token,
                 recipient |-> txn.to, excess |-> Excess(txn, msgValue, sentAmount),
                 pc |-> "recipient", snap |-> World]
        paidIn == Move(balances, sender, LEDGER, msgValue)
    IN  /\ CanCall(sender)
        /\ Len(stack) < MaxDepth
        /\ msgValue <= balances[sender]
        /\ ncalls' = ncalls + 1
        /\ UNCHANGED <<transactions, owner, tokenBalances, allowance, events, now>>
        /\ IF err # "ok"
           THEN /\ UNCHANGED <<balances, stack>>
                /\ Returned(rec, err, 0, World)
           ELSE IF txn.token = Zero
           THEN /\ balances' = Move(paidIn, LEDGER, txn.to, sent)
                /\ stack' = Append(stack, [f EXCEPT !.call.paid = sent])
                /\ UNCHANGED last
           ELSE /\ balances' = paidIn
                /\ stack' = Append(stack, [f EXCEPT !.pc = "transferFrom"])
                /\ UNCHANGED last

\* (mutant: the state update marks every slot of the store Paid)
FinalizeEvery(f, w) ==
    [w EXCEPT !.transactions =
                  [h \in Hashes |->
                      IF h = f.call.refHash
                      THEN [@[h] EXCEPT !.status = "Paid", !.refunded = f.excess,
                                        !.timestamp = now]
                      ELSE [@[h] EXCEPT !.status = "Paid"]],
              !.events = Append(@, Event("Receipt", f.call.sender, f.recipient,
                                         f.call.refHash, f.amount, f.token, f.excess))]

\* (mutant: the state update also writes what was supplied into amount)
FinalizeAmount(f, w) ==
    [w EXCEPT !.transactions[f.call.refHash].status = "Paid",
              !.transactions[f.call.refHash].refunded = f.excess,
              !.transactions[f.call.refHash].timestamp = now,
              !.transactions[f.call.refHash].amount = f.amount + f.excess,
              !.events = Append(@, Event("Receipt", f.call.sender, f.recipient,
                                         f.call.refHash, f.amount, f.token, f.excess))]

\* The frame's state update and event once the transfers are done.
Finalize(f, w) ==
    [w EXCEPT !.transactions[f.call.refHash].status = "Paid",
              !.transactions[f.call.refHash].refunded = f.excess,
              !.transactions[f.call.refHash].timestamp = now,
              !.events = Append(@, Event("Receipt", f.call.sender, f.recipient,
                                         f.call.refHash, f.amount, f.token, f.excess))]

Done(f, w)      == [kind |-> "done", frame |-> f, world |-> Finalize(f, w), err |-> "ok"]
Continue(f, w)  == [kind |-> "continue", frame |-> f, world |-> w, err |-> "ok"]
Reverted(f, e)  == [kind |-> "revert", frame |-> [f EXCEPT !.call.moveFailed = TRUE],
                    world |-> f.snap, err |-> e]
\* multicall returns: it writes no storage of its own and emits nothing.
Finished(f, w)  == [kind |-> "done", frame |-> f, world |-> w, err |-> "ok"]

\* What the token does when it answers "true": the standard ERC-20 movement.
TokenCan(f) ==
    CASE f.pc = "transferFrom" -> /\ tokenBalances[f.call.sender] >= f.call.sentAmount
                                  /\ allowance[f.call.sender] >= f.call.sentAmount
      [] f.pc = "transfer"     -> tokenBalances[LEDGER] >= f.amount
      [] f.pc = "tokenRefund"  -> tokenBalances[LEDGER] >= f.excess
      [] OTHER                 -> TRUE

\* The revert reason of the require around the frame's pending external call.
RequireMessage(pc) ==
    CASE pc = "recipient"    -> "Transfer to recipient failed"
      [] pc = "refund"       -> "Refund failed"
      [] pc = "transferFrom" -> "Token transfer failed"
      [] pc = "transfer"     -> "Token payment failed"
      [] pc = "tokenRefund"  -> "Token refund failed"
      [] pc = "multicall"    -> "Multicall failed"

\* The world and the frame after the pending external call gave res and moved
\* what it moves (a call that did not answer "true" moved nothing).
AfterCall(f, res, w) ==
    LET bad == [f EXCEPT !.call.moveFailed = TRUE] IN
    CASE res # "true" -> <<bad, w>>
      [] res = "true" /\ f.pc \in {"recipient", "refund", "multicall"} -> <<f, w>>
      [] res = "true" /\ f.pc = "transferFrom" ->
            <<[f EXCEPT !.call.pulled = f.call.sentAmount],
              [w EXCEPT !.tokenBalances =
                            Move(@, f.call.sender, LEDGER, f.call.sentAmount),
                        !.allowance[f.call.sender] = @ - f.call.sentAmount]>>
      [] res = "true" /\ f.pc = "transfer" ->
            <<[f EXCEPT !.call.paid = f.amount],
              [w EXCEPT !.tokenBalances = Move(@, LEDGER, f.recipient, f.amount)]>>
      [] res = "true" /\ f.pc = "tokenRefund" ->
            <<[f EXCEPT !.call.refund = f.excess],
              [w EXCEPT !.tokenBalances = Move(@, LEDGER, f.call.sender, f.excess)]>>

\* executePay from the return of its pending external call to its next external
\* call, its return or its revert.
Advance(f0, res, w0) ==
    LET fw == AfterCall(f0, res, w0)
        f  == fw[1]
        w  == fw[2]
    IN  IF res = "throw" THEN Reverted(f, "token call reverted")
        ELSE IF ~RequireOk(res) THEN Reverted(f, RequireMessage(f.pc))
        ELSE CASE f.pc = "multicall" -> Finished(f, w)
               [] f.pc = "recipient" ->
                    IF f.excess > 0
                    THEN IF w.balances[LEDGER] >= f.excess
                         THEN Continue([f EXCEPT !.pc = "refund",
                                                 !.call.refund = f.excess],
                                       [w EXCEPT !.balances =
                                            Move(@, LEDGER, f.call.sender, f.excess)])
                         ELSE Reverted(f, "Refund failed")
                    ELSE Done(f, w)
               [] f.pc = "refund" -> Done(f, w)
               [] f.pc = "transferFrom" -> Continue([f EXCEPT !.pc = "transfer"], w)
               [] f.pc = "transfer" ->
                    IF f.excess > 0
                    THEN Continue([f EXCEPT !.pc = "tokenRefund"], w)
                    ELSE Done(f, w)
               [] f.pc = "tokenRefund" -> Done(f, w)

\* The answers the pending external call can give: a plain value call succeeds
\* or fails (address(0) runs no code and the ledger's receive is empty: they
\* cannot fail); a call of a ledger function by multicall fails when that
\* function reverted; a token call returns true after moving the tokens, returns
\* false, or throws.
Answers(f) ==
    IF f.pc = "multicall" /\ f.recipient = LEDGER
    THEN IF SelfCallFailed THEN {"false"} ELSE {"true", "false"}
    ELSE IF f.pc \in {"recipient", "refund", "multicall"}
    THEN IF Callee(f) \in {Zero, LEDGER} THEN {"true"} ELSE {"true", "false"}
    ELSE IF TokenCan(f) THEN {"true", "false", "throw"} ELSE {"false", "throw"}

\* The pending external call of the innermost frame returns.
ExternalReturn(res) ==
    /\ stack # <<>>
    /\ res \in Answers(Top)
    /\ LET o == Advance(Top, res, World) IN
        /\ SetWorld(o.world)
        /\ IF o.kind = "continue"
           THEN /\ stack' = Append(Pop, o.frame)
                /\ UNCHANGED last
           ELSE /\ stack' = Pop
                /\ Returned(o.frame.call, o.err,
                            IF o.kind = "done" THEN o.frame.excess ELSE 0,
                            Top.snap)
    /\ UNCHANGED <<now, ncalls>>

\* ---------------------------------------------------------- getTransaction
\* return transactions[keccak256(abi.encodePacked(ref))].
getTransaction(ref) == transactions[keccak256(ref)]

\* The view function called: pre of the call's record is the struct it returned.
GetTransaction(sender, ref) ==
    LET rec == [CallRecord(ncalls + 1, "getTransaction", sender, keccak256(ref), 0, 0,
                           Len(stack)) EXCEPT !.pre = getTransaction(ref)]
    IN  /\ CanCall(sender)
        /\ ncalls' = ncalls + 1
        /\ UNCHANGED <<transactions, owner, balances, tokenBalances, allowance,
                       events, now, stack>>
        /\ Returned(rec, "ok", 0, World)

\* ------------------------------------------------ the administrative surface
\* withdraw: owner only.  Native: payable(owner).transfer(amount), which reverts
\* when the ledger holds less or the owner's code refuses (2300 gas: no call
\* back).  Token: IERC20(token).transfer(owner, amount), its result dropped.
Withdraw(sender, token, amount, res) ==
    LET rec == CallRecord(ncalls + 1, "withdraw", sender, StrayHash, 0, amount,
                          Len(stack))
        tokenCan == tokenBalances[LEDGER] >= amount
    IN  /\ CanCall(sender)
        /\ ncalls' = ncalls + 1
        /\ UNCHANGED <<transactions, owner, allowance, events, now, stack>>
        /\ IF sender # owner
           THEN /\ UNCHANGED <<balances, tokenBalances>>
                /\ Returned(rec, "Only owner", 0, World)
           ELSE IF token = Zero
           THEN /\ res \in {"true", "false"}
                /\ UNCHANGED tokenBalances
                /\ IF res = "true" /\ balances[LEDGER] >= amount
                   THEN /\ balances' = Move(balances, LEDGER, owner, amount)
                        /\ Returned([rec EXCEPT !.paid = amount], "ok", 0, World)
                   ELSE /\ UNCHANGED balances
                        /\ Returned([rec EXCEPT !.moveFailed = TRUE],
                                    "transfer reverted", 0, World)
           ELSE /\ res = "true" => tokenCan
                /\ UNCHANGED balances
                /\ IF res = "throw"
                   THEN /\ UNCHANGED tokenBalances
                        /\ Returned([rec EXCEPT !.moveFailed = TRUE],
                                    "token call reverted", 0, World)
                   ELSE IF res = "true"
                   THEN /\ tokenBalances' = Move(tokenBalances, LEDGER, owner, amount)
                        /\ Returned([rec EXCEPT !.paid = amount], "ok", 0, World)
                   ELSE /\ UNCHANGED tokenBalances
                        /\ Returned([rec EXCEPT !.moveFailed = TRUE], "ok", 0, World)

ChangeOwner(sender, newOwner) ==
    LET rec == CallRecord(ncalls + 1, "changeOwner", sender, StrayHash, 0, 0,
                          Len(stack))
    IN  /\ CanCall(sender)
        /\ ncalls' = ncalls + 1
        /\ UNCHANGED <<transactions, balances, tokenBalances, allowance, events,
                       now, stack>>
        /\ IF sender = owner
           THEN owner' = newOwner /\ Returned(rec, "ok", 0, World)
           ELSE UNCHANGED owner /\ Returned(rec, "only Owner", 0, World)

\* receive() external payable {}: a plain transfer of value to the ledger.
Receive(sender, msgValue) ==
    LET rec == CallRecord(ncalls + 1, "receive", sender, StrayHash, msgValue, 0,
                          Len(stack))
    IN  /\ CanCall(sender)
        /\ msgValue > 0
        /\ msgValue <= balances[sender]
        /\ ncalls' = ncalls + 1
        /\ balances' = Move(balances, sender, LEDGER, msgValue)
        /\ UNCHANGED <<transactions, owner, tokenBalances, allowance, events,
                       now, stack>>
        /\ Returned(rec, "ok", 0, World)

\* multicall(calls) with one element: calls[0].target.call{value: calls[0].value}
\* (calls[0].data), made by the ledger, and require(success).  The element is
\*   - a plain call of a user's address with a value: it fails when the ledger
\*     holds less than the value or the user's code refuses (res = "false");
\*   - tokenX.transfer(to, value): success is that of the low-level call, so a
\*     token that returns false has not failed, and one that throws has;
\*   - a call of a function of the ledger itself: the frame is pushed and the
\*     ledger is the caller (msg.sender = address(this)) of what runs in it,
\*     with the value that call names.
\* The first two are taken as one step: the called address does not call back.
Multicall(sender, msgValue, target, value, to, res) ==
    LET rec == CallRecord(ncalls + 1, "multicall", sender, StrayHash, msgValue, 0,
                          Len(stack))
        f   == [call |-> rec, amount |-> 0, token |-> Zero, recipient |-> LEDGER,
                excess |-> 0, pc |-> "multicall", snap |-> World]
        paidIn == Move(balances, sender, LEDGER, msgValue)
    IN  /\ CanCall(sender)
        /\ msgValue <= balances[sender]
        /\ ncalls' = ncalls + 1
        /\ UNCHANGED <<transactions, owner, allowance, events, now>>
        /\ CASE target = LEDGER ->
                /\ Len(stack) < MaxDepth
                /\ value = 0 /\ to = Zero /\ res = "true"
                /\ balances' = paidIn
                /\ stack' = Append(stack, f)
                /\ UNCHANGED <<tokenBalances, last>>
             [] target \in Users ->
                /\ to = Zero /\ res \in {"true", "false"}
                /\ UNCHANGED <<tokenBalances, stack>>
                /\ IF RequireOk(res) /\ value <= paidIn[LEDGER]
                   THEN /\ balances' = Move(paidIn, LEDGER, target, value)
                        /\ Returned([rec EXCEPT !.paid = value], "ok", 0, World)
                   ELSE /\ UNCHANGED balances
                        /\ Returned([rec EXCEPT !.moveFailed = TRUE],
                                    RequireMessage("multicall"), 0, World)
             [] target = TokenX ->
                /\ to \in Users /\ value > 0
                /\ res = "true" => tokenBalances[LEDGER] >= value
                /\ UNCHANGED stack
                /\ IF res = "throw"
                   THEN /\ UNCHANGED <<balances, tokenBalances>>
                        /\ Returned([rec EXCEPT !.moveFailed = TRUE],
                                    RequireMessage("multicall"), 0, World)
                   ELSE IF res = "true"
                   THEN /\ balances' = paidIn
                        /\ tokenBalances' = Move(tokenBalances, LEDGER, to, value)
                        /\ Returned([rec EXCEPT !.paid = value], "ok", 0, World)
                   ELSE /\ balances' = paidIn
                        /\ UNCHANGED tokenBalances
                        /\ Returned([rec EXCEPT !.moveFailed = TRUE], "ok", 0, World)

\* ------------------------------------------------------------ the client
\* JavaScript values as the client passes them: a bigint, an address string or
\* undefined.  Equality of two of them is JavaScript's strict equality.
JsBigint(n)  == [type |-> "bigint", addr |-> Zero, num |-> n]
JsAddress(a) == [type |-> "string", addr |-> a, num |-> 0]
JsUndefined  == [type |-> "undefined", addr |-> Zero, num |-> 0]

\* The provider's payTransaction(ref, amount, token): the executePay call it
\* submits.  value: amount is attached when token is the zero-address string.
payTransaction(ref, amount, token) ==
    IF token = JsAddress(Zero)
    THEN [ref |-> ref, sentAmount |-> amount, value |-> amount]
    ELSE [ref |-> ref, sentAmount |-> amount, value |-> 0]

\* The third argument the pay page and the transaction form give payTransaction:
\* isNative ? amount : undefined.
ThirdArgument(txn) ==
    IF txn.token = Zero THEN JsBigint(txn.amount) ELSE JsUndefined

\* The pay page's handlePay for the reference it has loaded with getTransaction:
\* it returns early unless the record is Pending and the user is its from.
HandlePay(user, ref) ==
    LET txn  == getTransaction(ref)
        call == payTransaction(ref, txn.amount, ThirdArgument(txn))
    IN  /\ stack = <<>>
        /\ ref # ""
        /\ txn.status = "Pending"
        /\ txn.from = user
        /\ ExecutePay(user, call.ref, call.value, call.sentAmount)

\* The transaction form's pay(ref): it fetches the record with getTransaction
\* and returns early unless it is Pending.
Pay(user, ref) ==
    LET invoice == getTransaction(ref)
        call    == payTransaction(ref, invoice.amount, ThirdArgument(invoice))
    IN  /\ stack = <<>>
        /\ invoice.status = "Pending"
        /\ ExecutePay(user, call.ref, call.value, call.sentAmount)

\* ------------------------------------------------------- the environment
\* tokenX.approve(address(this), amount), sent by a user between transactions.
Approve(user, amount) ==
    /\ stack = <<>>
    /\ ncalls < MaxCalls
    /\ allowance[user] # amount
    /\ ncalls' = ncalls + 1
    /\ allowance' = [allowance EXCEPT ![user] = amount]
    /\ UNCHANGED <<transactions, owner, balances, tokenBalances, events, now,
                   stack, last>>

\* A later block: block.timestamp grows between transactions.
Tick ==
    /\ stack = <<>>
    /\ ncalls < MaxCalls
    /\ now < MaxTime
    /\ ncalls' = ncalls + 1
    /\ now' = now + 1
    /\ UNCHANGED <<transactions, owner, balances, tokenBalances, allowance, events,
                   stack, last>>

\* ------------------------------------------------------ the specification
Tokens     == {Zero, TokenX}
Recipients == Users \cup {Zero}

\* The addresses that may call into the ledger now.
Callers == {s \in Addresses : CanCall(s)}

\* Every message call an address can make (and the environment's steps).
Calls ==
    \/ \E s \in Callers, r \in Recipients, a \in Amounts, t \in Tokens, ref \in Strings :
            GenerateTransaction(s, r, a, t, ref)
    \/ \E s \in Callers, ref \in Strings, v \in Amounts, sa \in Amounts :
            ExecutePay(s, ref, v, sa)
    \/ \E s \in Callers, h \in Hashes : CancelTransaction(s, h)
    \/ \E s \in Callers, ref \in Strings : GetTransaction(s, ref)
    \/ \E s \in Callers, t \in Tokens, a \in Amounts, res \in {"true", "false", "throw"} :
            Withdraw(s, t, a, res)
    \/ \E s \in Callers, o \in Users : ChangeOwner(s, o)
    \/ \E s \in Callers, v \in Amounts : Receive(s, v)
    \/ \E s \in Callers, v \in Amounts, t \in Users \cup {LEDGER, TokenX},
          a \in Amounts, to \in Users \cup {Zero}, res \in {"true", "false", "throw"} :
            Multicall(s, v, t, a, to, res)
    \/ \E u \in Users, ref \in Strings : HandlePay(u, ref)
    \/ \E u \in Users, ref \in Strings : Pay(u, ref)
    \/ \E u \in Users, a \in Amounts : Approve(u, a)
    \/ Tick

Returns == \E res \in {"true", "false", "throw"} : ExternalReturn(res)

\* Any interleaving: while an external call of executePay is pending, the called
\* address may call back into the ledger.
Next == Calls \/ Returns

Spec == Init /\ [][Next]_vars

\* The chain's serialization of transactions sent by externally owned accounts:
\* the addresses the ledger calls run no code that calls back, so a transaction
\* ends before the next one starts; the calls inside a transaction are those
\* multicall has the ledger make of itself.
InSelfCall == stack # <<>> /\ Top.pc = "multicall"

NextSerial ==
    \/ (stack = <<>> \/ InSelfCall) /\ Calls
    \/ Returns

SpecSerial == Init /\ [][NextSerial]_vars

\* ================================================================ claims
IsSettle(c)   == c.fn = "executePay"
\* The call was made on a record generateTransaction created.
OnRecord(c)   == c.pre.from # Zero
\* What the caller supplied: msg.value for a native record, sentAmount for a token one.
Supplied(c)   == IF c.pre.token = Zero THEN c.value ELSE c.sentAmount
\* The call found the record Pending, brought enough, and no transfer of it failed.
Payable(c)    == /\ c.pre.status = "Pending"
                 /\ Supplied(c) >= c.pre.amount
                 /\ ~c.moveFailed

\* C1 (authorization of settle): an executePay call on a generated record made by
\* an identity other than the record's from does not succeed, even when the record
\* is Pending and the amount supplied is sufficient (the claim: it fails with
\* Unauthorized and moves nothing).
C1_SettleOnlyByCreator ==
    (IsSettle(last) /\ OnRecord(last) /\ Payable(last) /\ last.sender # last.pre.from)
        => last.result # "ok"

\* C2 (conservation): after a successful executePay on a generated record, what
\* the call delivered to the recipient plus what it refunded to the caller equals
\* what the caller supplied.
C2_Conservation ==
    (IsSettle(last) /\ OnRecord(last) /\ last.result = "ok")
        => last.paid + last.refund = Supplied(last)

\* C3 (native settlement delivers the exact amount): a successful executePay by
\* the creator on a Pending native record of amount a with attached value v >= a
\* delivers exactly a to the recipient, refunds exactly v - a and stores and
\* returns refunded = v - a.
C3_NativeExactAmount ==
    (/\ IsSettle(last) /\ OnRecord(last) /\ last.result = "ok"
     /\ last.pre.token = Zero /\ last.sender = last.pre.from)
        => /\ last.paid = last.pre.amount
           /\ last.refund = last.value - last.pre.amount
           /\ last.ret = last.value - last.pre.amount

\* C4 (monotonic lifecycle): from one committed state of the chain to the next, a
\* status that is Paid or Cancelled never changes.
C4_TerminalStatusIsFinal ==
    [][\A h \in Hashes :
          Committed.transactions[h].status \in {"Paid", "Cancelled"}
              => Committed'.transactions[h].status = Committed.transactions[h].status]_vars

\* The executePay frame still in progress that call c was made inside of, on the
\* same reference.
InsideSettleOfSameRef(c) ==
    /\ c.depth >= 1
    /\ Len(stack) >= c.depth
    /\ stack[c.depth].call.id < c.id
    /\ stack[c.depth].call.refHash = c.refHash

\* C5 (reentrancy safety of settle): an executePay made on a reference from inside
\* a pending external call of an executePay on that same reference does not
\* succeed (the claim: it fails because the record is no longer Pending).
C5_NoReentrantSettle ==
    (IsSettle(last) /\ OnRecord(last) /\ InsideSettleOfSameRef(last))
        => last.result # "ok"

\* C6 (settle requires an existing record): an executePay on a reference that
\* generateTransaction never stored a record for does not succeed.
C6_SettleNeedsRecord ==
    (IsSettle(last) /\ ~OnRecord(last)) => last.result # "ok"

EventsOf(name, h) ==
    {i \in 1..Len(events) : events[i].name = name /\ events[i].refHash = h}

\* C7 (uniqueness): generateTransaction succeeds at most once per reference; a
\* later one on the same reference fails and leaves the record and the log as
\* they are, and fails with "ref already used" whenever its recipient is non-zero
\* and its amount positive (the argument requires come first).
C7_GenerateOnce ==
    /\ \A h \in Hashes : Cardinality(EventsOf("TransactionGenerated", h)) <= 1
    /\ (last.fn = "generateTransaction" /\ OnRecord(last))
          => /\ last.result # "ok"
             /\ last.restored
             /\ (last.args[1] # Zero /\ last.args[2] > 0)
                    => last.result = "ref already used"

\* A second generate on a used reference, by another caller with other arguments.
C7_Witness ==
    /\ last.fn = "generateTransaction"
    /\ last.result = "ref already used"
    /\ last.sender # last.pre.from
    /\ last.args # <<last.pre.to, last.pre.amount, last.pre.token>>
    /\ transactions[last.refHash] = last.pre

\* C7 as claimed: every generateTransaction on a used reference fails with
\* "ref already used", whatever its arguments.
C7_AlwaysRefAlreadyUsed ==
    (last.fn = "generateTransaction" /\ OnRecord(last))
        => last.result = "ref already used"

\* C8 (external-transfer failure is all-or-nothing): an executePay one of whose
\* value movements failed (the call to the recipient or the refund failed, a
\* token call returned false or threw) returned a TransferFailed reason, and the
\* world at its return (records, balances, allowances, log, owner) is the world
\* at its entry; so no executePay that marked a record Paid had a movement fail.
C8_TransferFailureAborts ==
    (IsSettle(last) /\ last.moveFailed)
        => /\ last.result \in TransferFailed
           /\ last.restored

\* A token payment that failed after the pull had gone through, all rolled back.
C8_Witness ==
    /\ IsSettle(last)
    /\ last.result = "Token payment failed"
    /\ last.pulled > 0
    /\ stack = <<>>
    /\ transactions[last.refHash] = last.pre
    /\ tokenBalances[LEDGER] = 0

\* Receipts logged for h after its TransactionGenerated.
ReceiptsAfterGenerate(h) ==
    {i \in EventsOf("Receipt", h) : \E j \in EventsOf("TransactionGenerated", h) : j < i}

\* C9 (double-settle race): in a serial execution, a generated record is settled
\* at most once: a successful executePay leaves it Paid with its one Receipt, and
\* an executePay that finds it Paid fails with InvalidState.
C9_OneSettleWins ==
    /\ \A h \in Hashes : Cardinality(ReceiptsAfterGenerate(h)) <= 1
    /\ (IsSettle(last) /\ OnRecord(last) /\ last.pre.status = "Paid")
            => last.result \in InvalidState
    /\ (IsSettle(last) /\ OnRecord(last) /\ last.result = "ok")
            => /\ transactions[last.refHash].status = "Paid"
               /\ Cardinality(ReceiptsAfterGenerate(last.refHash)) = 1

\* The loser of the race: a second executePay on a record the first one paid.
C9_Witness ==
    /\ IsSettle(last) /\ OnRecord(last)
    /\ last.pre.status = "Paid"
    /\ last.result = "Invalid tx status"
    /\ Cardinality(ReceiptsAfterGenerate(last.refHash)) = 1

Terminal(txn) == txn.status \in {"Paid", "Cancelled"}

\* C10 (terminal records reject further operations): an executePay, or a
\* cancelTransaction by the creator, that found the record Paid or Cancelled
\* returned an InvalidState reason and left the world as it was.
C10_TerminalRejects ==
    (/\ last.fn \in {"executePay", "cancelTransaction"}
     /\ Terminal(last.pre)
     /\ last.fn = "cancelTransaction" => last.sender = last.pre.from)
        => /\ last.result \in InvalidState
           /\ last.restored

\* generate, cancel, then a settle that fails: the record is still Cancelled and
\* no Receipt was ever logged for it.
C10_Witness ==
    /\ IsSettle(last) /\ OnRecord(last)
    /\ last.pre.status = "Cancelled"
    /\ last.result = "Invalid tx status"
    /\ transactions[last.refHash] = last.pre
    /\ EventsOf("Receipt", last.refHash) = {}

\* C11 (authorization of cancel): a cancelTransaction that succeeded was made by
\* the stored from of a generated record that was Pending; one made by any other
\* identity, or on a reference with no record, failed with "Only creator can
\* cancel" and left the world (records, log, balances) as it was.
C11_CancelOnlyByCreator ==
    /\ (last.fn = "cancelTransaction" /\ last.result = "ok")
          => /\ OnRecord(last)
             /\ last.sender = last.pre.from
             /\ last.pre.status = "Pending"
    /\ (last.fn = "cancelTransaction" /\ last.sender # last.pre.from)
          => /\ last.result \in Unauthorized
             /\ last.restored

\* A cancel of a Pending generated record by someone who did not create it: it
\* failed, the record is as it was and no TransactionCancelled was logged.
C11_Witness ==
    /\ last.fn = "cancelTransaction"
    /\ OnRecord(last) /\ last.pre.status = "Pending"
    /\ last.sender # last.pre.from
    /\ last.result = "Only creator can cancel"
    /\ transactions[last.refHash] = last.pre
    /\ EventsOf("TransactionCancelled", last.refHash) = {}

C13_TokenSettlement ==
    [][(/\ Len(stack) = 1 /\ stack' = <<>>
        /\ IsSettle(last') /\ OnRecord(last')
        /\ last'.pre.token # Zero /\ last'.pre.status = "Pending"
        /\ last'.sentAmount >= last'.pre.amount
        /\ ~last'.moveFailed)
          => LET c == last'
                 s == c.sentAmount
                 a == c.pre.amount
                 pulled    == Move(Committed.tokenBalances, c.sender, LEDGER, s)
                 forwarded == Move(pulled, LEDGER, c.pre.to, a)
                 returned  == Move(forwarded, LEDGER, c.sender, s - a)
             IN  /\ c.result = "ok"
                 /\ tokenBalances' = returned
                 /\ allowance' = [Committed.allowance EXCEPT ![c.sender] = @ - s]
                 /\ c.pulled = s /\ c.paid = a /\ c.refund = s - a /\ c.ret = s - a
                 /\ transactions'[c.refHash] =
                        [c.pre EXCEPT !.status = "Paid", !.refunded = s - a,
                                      !.timestamp = now]]_vars

\* A token record of amount a paid with s > a by someone who is not its
\* recipient: Paid, the excess recorded and returned, the ledger holding no token.
C13_Witness ==
    /\ IsSettle(last) /\ OnRecord(last) /\ last.result = "ok"
    /\ last.pre.token = TokenX
    /\ last.sentAmount > last.pre.amount
    /\ last.sender # last.pre.to
    /\ last.pulled = last.sentAmount
    /\ transactions[last.refHash].status = "Paid"
    /\ transactions[last.refHash].refunded = last.sentAmount - last.pre.amount
    /\ tokenBalances[LEDGER] = 0
    /\ tokenBalances[last.pre.to] = MaxAmount + last.pre.amount

\* C14 (ledger-held balances are owner-controlled): a withdraw or a changeOwner
\* that succeeds is made by the owner, and a transaction sent by an identity that
\* is not the owner when it starts leaves the ledger with no less native balance
\* and no less token balance than it had.
C14_OwnerControlsBalances ==
    [][/\ (last' # last /\ last'.fn \in {"withdraw", "changeOwner"} /\ last'.result = "ok")
            => last'.sender = owner
       /\ (last' # last /\ stack' = <<>> /\ last'.sender # Committed.owner)
            => /\ balances'[LEDGER] >= Committed.balances[LEDGER]
               /\ tokenBalances'[LEDGER] >= Committed.tokenBalances[LEDGER]]_vars

\* C15 (events exactly once per transition): for every reference hash the log
\* holds at most one TransactionGenerated, at most one Receipt and at most one
\* TransactionCancelled, and a call that failed left the log as it was.
C15_EventsOncePerTransition ==
    /\ \A h \in Hashes :
          /\ Cardinality(EventsOf("TransactionGenerated", h)) <= 1
          /\ Cardinality(EventsOf("Receipt", h)) <= 1
          /\ Cardinality(EventsOf("TransactionCancelled", h)) <= 1
    /\ (last.fn # "none" /\ last.result # "ok") => last.restored

\* C16 (creation validation): a generateTransaction with the zero address as
\* recipient failed with InvalidRecipient; with a non-zero recipient and amount
\* zero, with InvalidAmount; with a non-zero recipient, a positive amount and the
\* empty reference, with EmptyReference; and any generateTransaction that failed
\* left the store and the log as they were.
C16_CreationValidation ==
    last.fn = "generateTransaction"
        => /\ last.args[1] = Zero => last.result \in InvalidRecipient
           /\ (last.args[1] # Zero /\ last.args[2] = 0) => last.result \in InvalidAmount
           /\ (last.args[1] # Zero /\ last.args[2] > 0 /\ last.refHash = keccak256(""))
                 => last.result \in EmptyReference
           /\ last.result # "ok" => last.restored

\* A generateTransaction with amount zero and the empty reference: the recipient
\* being valid, InvalidAmount is the failure, and no record or event was written.
C16_Witness ==
    /\ last.fn = "generateTransaction"
    /\ last.args[1] # Zero /\ last.args[2] = 0 /\ last.refHash = keccak256("")
    /\ last.result = "Amount must be greater than 0"
    /\ transactions[last.refHash] = EmptyTx
    /\ EventsOf("TransactionGenerated", last.refHash) = {}

\* C16 as claimed: amount zero gives InvalidAmount and the empty reference gives
\* EmptyReference, whatever the other arguments.
C16_EachErrorWhenItsArgumentIsBad ==
    last.fn = "generateTransaction"
        => /\ last.args[1] = Zero => last.result \in InvalidRecipient
           /\ last.args[2] = 0 => last.result \in InvalidAmount
           /\ last.refHash = keccak256("") => last.result \in EmptyReference

\* C17 (record well-formedness): every slot of the store that is not the
\* all-default struct holds a positive amount and a non-zero recipient.
C17_RecordsWellFormed ==
    \A h \in Hashes :
        transactions[h] # EmptyTx
            => transactions[h].amount > 0 /\ transactions[h].to # Zero

\* C18 (idempotent query): getTransaction changes nothing, and for a reference no
\* TransactionGenerated was ever logged for it returns the all-default struct
\* (the not-found sentinel), whatever was called before.
C18_QueryOfUnknownIsSentinel ==
    last.fn = "getTransaction"
        => /\ last.restored
           /\ EventsOf("TransactionGenerated", last.refHash) = {} => last.pre = EmptyTx

C20_SettleOrCancelNotBoth ==
    \A h \in Hashes :
        ~(ReceiptsAfterGenerate(h) # {} /\ EventsOf("TransactionCancelled", h) # {})

\* The terms of a record: what generateTransaction fixes.
Terms(txn) == <<txn.from, txn.to, txn.amount, txn.token>>

\* C21 (immutability after creation): the record of every reference with a
\* TransactionGenerated in the log has the from, to, amount and token of that
\* event; an executePay that succeeded on a generated record left those four as
\* it found them, and a cancelTransaction that succeeded changed nothing but
\* status and timestamp.
C21_TermsImmutable ==
    /\ \A h \in Hashes : \A i \in EventsOf("TransactionGenerated", h) :
          Terms(transactions[h]) = Terms(events[i])
    /\ (IsSettle(last) /\ OnRecord(last) /\ last.result = "ok")
          => Terms(transactions[last.refHash]) = Terms(last.pre)
    /\ (last.fn = "cancelTransaction" /\ last.result = "ok")
          => /\ Terms(transactions[last.refHash]) = Terms(last.pre)
             /\ transactions[last.refHash].refunded = last.pre.refunded

\* A record settled in a later block: status and timestamp have changed, the
\* terms are those of its TransactionGenerated.
C21_Witness ==
    /\ IsSettle(last) /\ OnRecord(last) /\ last.result = "ok"
    /\ last.pre.status = "Pending"
    /\ transactions[last.refHash].status = "Paid"
    /\ transactions[last.refHash].timestamp # last.pre.timestamp
    /\ \E i \in EventsOf("TransactionGenerated", last.refHash) :
          Terms(transactions[last.refHash]) = Terms(events[i])

\* C22 (receipt consistency): after a successful executePay on a generated
\* record, the last event is its Receipt; the returned value, the stored refunded
\* and the Receipt's refunded all equal what was supplied minus the amount; the
\* record is Paid with the Receipt's timestamp; and the Receipt's from, to, amount
\* and token are the record's.
C22_ReceiptMatchesRecord ==
    (IsSettle(last) /\ OnRecord(last) /\ last.result = "ok")
        => LET e   == events[Len(events)]
               txn == transactions[last.refHash]
               x   == Supplied(last) - last.pre.amount
           IN  /\ e.name = "Receipt" /\ e.refHash = last.refHash
               /\ last.ret = x /\ txn.refunded = x /\ e.refunded = x
               /\ txn.status = "Paid" /\ txn.timestamp = e.timestamp
               /\ Terms(e) = Terms(txn)

\* C23 (token call results are checked): an executePay or a withdraw one of
\* whose token calls returned false or threw did not succeed.
C23_TokenResultsChecked ==
    (last.fn \in {"executePay", "withdraw"} /\ last.moveFailed)
        => last.result # "ok"

\* C24 (native payments ignore sentAmount): the outcome of an executePay on a
\* native record is a function of the record found, the attached value and what
\* the called addresses answered, whatever sentAmount is: it fails with
\* InvalidState when the record is not Pending, with "Insufficient ETH sent" when
\* the value is below the amount, with a TransferFailed reason when a transfer
\* failed, and otherwise succeeds, refunding and returning value - amount; no
\* token is pulled.  In every state the requires and the excess of a native
\* record are the same for any two sentAmounts.
C24_NativeIgnoresSentAmount ==
    /\ (IsSettle(last) /\ last.pre.token = Zero)
          => /\ last.pulled = 0
             /\ last.result =
                  (IF last.pre.status # "Pending" THEN "Invalid tx status"
                   ELSE IF last.value < last.pre.amount THEN "Insufficient ETH sent"
                   ELSE IF last.moveFailed THEN last.result
                   ELSE "ok")
             /\ last.moveFailed
                   => last.result \in {"Transfer to recipient failed", "Refund failed"}
             /\ last.result = "ok"
                   => /\ last.ret = last.value - last.pre.amount
                      /\ last.refund = last.value - last.pre.amount
    /\ \A ref \in Strings, v \in Amounts, sa1 \in Amounts, sa2 \in Amounts :
          getTransaction(ref).token = Zero
              => /\ ExecutePayError(getTransaction(ref), v, sa1)
                      = ExecutePayError(getTransaction(ref), v, sa2)
                 /\ Excess(getTransaction(ref), v, sa1)
                      = Excess(getTransaction(ref), v, sa2)

\* A native record paid by its creator with the amount attached and a sentAmount
\* of 0, below the amount: it succeeded all the same.
C24_Witness ==
    /\ IsSettle(last) /\ OnRecord(last) /\ last.sender = last.pre.from
    /\ last.pre.token = Zero
    /\ last.value = last.pre.amount
    /\ last.sentAmount < last.pre.amount
    /\ last.result = "ok"
    /\ transactions[last.refHash].status = "Paid"

\* Nobody's native balance, token balance or allowance changes in the step.
NoFundsMove ==
    /\ balances' = balances
    /\ tokenBalances' = tokenBalances
    /\ allowance' = allowance

\* C25 (generate is a pure reservation): a generateTransaction that succeeds
\* stores at its reference hash a Pending record with from = the caller, the
\* recipient, amount and token given, timestamp = the current time and refunded
\* = 0, appends one TransactionGenerated event with those values, and changes no
\* other record, no native or token balance, no allowance and not the owner.
C25_GenerateIsReservation ==
    [][(last' # last /\ last'.fn = "generateTransaction" /\ last'.result = "ok")
          => LET c == last'
                 h == c.refHash
                 stored == [from |-> c.sender, to |-> c.args[1], amount |-> c.args[2],
                            token |-> c.args[3], timestamp |-> now,
                            status |-> "Pending", refunded |-> 0]
             IN  /\ transactions' = [transactions EXCEPT ![h] = stored]
                 /\ Len(events') = Len(events) + 1
                 /\ SubSeq(events', 1, Len(events)) = events
                 /\ events'[Len(events')] =
                        Event("TransactionGenerated", c.sender, c.args[1], h,
                              c.args[2], c.args[3], 0)
                 /\ NoFundsMove
                 /\ owner' = owner]_vars

\* A token record created in a later block for somebody else: stored with the
\* caller as from and the block's time, every balance still what it was at first.
C25_Witness ==
    /\ last.fn = "generateTransaction" /\ last.result = "ok"
    /\ last.args[1] # last.sender /\ last.args[3] = TokenX
    /\ now > 0
    /\ transactions[last.refHash] =
          [from |-> last.sender, to |-> last.args[1], amount |-> last.args[2],
           token |-> TokenX, timestamp |-> now, status |-> "Pending", refunded |-> 0]
    /\ Cardinality(EventsOf("TransactionGenerated", last.refHash)) = 1
    /\ \A u \in Users : balances[u] = MaxAmount /\ tokenBalances[u] = MaxAmount
    /\ balances[LEDGER] = 0 /\ tokenBalances[LEDGER] = 0

\* C26 (cancel moves no funds): a cancelTransaction that succeeds sets the
\* record's status to Cancelled and its timestamp to the current time, leaves
\* the record's other fields and every other record as they were, appends one
\* TransactionCancelled(from, refHash, timestamp) whose from is the record's, and
\* changes no native or token balance, no allowance and not the owner.
C26_CancelMovesNoFunds ==
    [][(last' # last /\ last'.fn = "cancelTransaction" /\ last'.result = "ok")
          => LET c == last'
                 h == c.refHash
             IN  /\ transactions' =
                        [transactions EXCEPT ![h] =
                            [@ EXCEPT !.status = "Cancelled", !.timestamp = now]]
                 /\ Len(events') = Len(events) + 1
                 /\ SubSeq(events', 1, Len(events)) = events
                 /\ events'[Len(events')] =
                        Event("TransactionCancelled", transactions[h].from, Zero, h,
                              0, Zero, 0)
                 /\ NoFundsMove
                 /\ owner' = owner]_vars

\* A record cancelled by its creator in a later block than it was created in.
C26_Witness ==
    /\ last.fn = "cancelTransaction" /\ last.result = "ok"
    /\ last.pre.status = "Pending"
    /\ transactions[last.refHash] =
          [last.pre EXCEPT !.status = "Cancelled", !.timestamp = now]
    /\ now # last.pre.timestamp
    /\ Cardinality(EventsOf("TransactionCancelled", last.refHash)) = 1
    /\ \A u \in Users : balances[u] = MaxAmount /\ tokenBalances[u] = MaxAmount

C28_OnlyCreatorEndsPending ==
    [][\A h \in Hashes :
          (/\ Committed.transactions[h].from # Zero
           /\ Committed.transactions[h].status = "Pending"
           /\ Committed'.transactions[h].status # "Pending")
              => /\ last'.fn \in {"executePay", "cancelTransaction"}
                 /\ last'.refHash = h
                 /\ last'.result = "ok"
                 /\ last'.sender = Committed.transactions[h].from]_vars

\* C29 (settle never touches ledger funds): when an executePay on a generated
\* record succeeds, the ledger's native balance and its token balance are what
\* they were before the call.
C29_SettleKeepsLedgerBalance ==
    [][(/\ Len(stack) = 1 /\ stack' = <<>>
        /\ IsSettle(last') /\ OnRecord(last') /\ last'.result = "ok")
          => /\ balances'[LEDGER] = Committed.balances[LEDGER]
             /\ tokenBalances'[LEDGER] = Committed.tokenBalances[LEDGER]]_vars

\* The executePay call a step has just submitted: in progress, or failed at once.
Submitted == IF stack # <<>> THEN Top.call ELSE last

\* C30 (client pay flow attaches native value): the executePay that the pay page
\* or the transaction form submits for a Pending generated record carries the
\* record's amount as attached value when the record's token is the zero
\* address, and no value when it is a token.
C30_ClientAttachesValue ==
    [][\A u \in Users, ref \in Strings :
          ((HandlePay(u, ref) \/ Pay(u, ref)) /\ getTransaction(ref).from # Zero)
              => Submitted'.value =
                    (IF getTransaction(ref).token = Zero
                     THEN getTransaction(ref).amount ELSE 0)]_vars

====
